---- MODULE Spec2Model ----
(***************************************************************************)
(* A model of src/src/dialogflow-fulfillment-client.ts: the WebhookClient  *)
(* class, which wraps a Dialogflow webhook request (request.body), builds  *)
(* the webhook response (webhookResponseBody) and sends it once the intent *)
(* handler chosen by handleRequest has settled.                            *)
(*                                                                         *)
(* JavaScript values are records tagged by the field t.  A property that   *)
(* is absent from an object reads as undefined, so the objects of the      *)
(* request body are records with every field of their schema, an absent    *)
(* field holding Undefined.  Arrays that live in the request body or in    *)
(* the response body are objects with identity: a value ArrRef(r) names    *)
(* the array r, and heap[r] is its contents.                               *)
(***************************************************************************)
EXTENDS Integers, Sequences, FiniteSets, TLC

VARIABLES
    webhookRequestBody,   \* request.body, as the constructor stored it
    webhookResponseBody,  \* the two fields the class sets on the response body
    heap,                 \* contents of the arrays, by identity
    exception,            \* what the last call of a method threw ("none" if nothing)
    pc,                   \* where the current handleRequest invocation stands
    calls,                \* handleRequest invocations started so far
    intentMap,            \* own keys of the intentMap of the current invocation
    delayed,              \* the handler of the current invocation has awaited
    sent,                 \* what response.send was called with, in order
    lateAdds,             \* history: strings the handler added after a delay
    history,              \* history: the last calls, as far as clearFulfillments;add
    constructed,          \* history: what the array getters returned after construction
    result                \* the last getter read and what it returned

vars == <<webhookRequestBody, webhookResponseBody, heap, exception, pc, calls,
          intentMap, delayed, sent, lateAdds, history, constructed, result>>

----------------------------------------------------------------------------
(* Bounds of the model. *)

\* the longest outbound arrays when only the mutation operations are called
MaxMsgs == 2
MaxCtxs == 2
\* the longest outbound arrays, and the handleRequest invocations, under dispatch
MaxDispatchMsgs == 1
MaxDispatchCtxs == 1
MaxCalls == 1

----------------------------------------------------------------------------
(* JavaScript values. *)

Undefined == [t |-> "undefined"]
Null == [t |-> "null"]
TypeError == [t |-> "TypeError"]
Str(s) == [t |-> "string", s |-> s]
Bool(b) == [t |-> "boolean", b |-> b]
Num(n) == [t |-> "number", n |-> n]
Obj(fields) == [t |-> "object", o |-> fields]
ArrRef(r) == [t |-> "arrayref", ref |-> r]
\* an array passed as an argument, by its elements
Arr(items) == [t |-> "array", items |-> items]
\* a non-array object with a numeric length property; it is not iterable
ArrayLike(n) == [t |-> "arraylike", length |-> n]
\* an instance of google.cloud.dialogflow.v2.Context
Context(name) == [t |-> "Context", name |-> name]
\* a context as it comes parsed from JSON: a plain object
PlainContext(name) == [t |-> "plaincontext", name |-> name]
\* { text: { text: [v] } }
TextMessage(v) == [text |-> [text |-> <<v>>]]

Nullish(v) == v.t \in {"undefined", "null"}

\* v.k for a v that is not null or undefined
Prop(v, k) == IF v.t = "object" THEN v.o[k] ELSE Undefined

\* v?.k
OptChain(v, k) == IF Nullish(v) THEN Undefined ELSE Prop(v, k)

\* v ?? d
Coalesce(v, d) == IF Nullish(v) THEN d ELSE v

----------------------------------------------------------------------------
(* The inbound payload: request.body. *)

\* the intent display names a request may carry
DisplayNames == {"Start", "constructor"}

Intents == {Undefined} \cup {Obj([displayName |-> Str(n)]) : n \in DisplayNames}

\* queryResult objects whose fields are drawn from the given sets
QueryResults(QTs, PAs, ARs, FTs, FMs, OCs, INs, COs, DIs, LCs) ==
    {Obj(r) : r \in [queryText : QTs, parameters : PAs, allRequiredParamsPresent : ARs,
                     fulfillmentText : FTs, fulfillmentMessages : FMs,
                     outputContexts : OCs, intent : INs,
                     intentDetectionConfidence : COs, diagnosticInfo : DIs,
                     languageCode : LCs]}

Bodies(RIs, SEs, QRs, ODs) ==
    {Obj(r) : r \in [responseId : RIs, session : SEs, queryResult : QRs,
                     originalDetectIntentRequest : ODs]}

\* the payloads with the given intents: with no queryResult, and with one that
\* holds or lacks each of the two arrays
BodiesWith(intents) ==
    Bodies({Str("r1")}, {Str("s1")},
           {Undefined} \cup
           QueryResults({Str("hi")}, {Undefined}, {Bool(TRUE)}, {Undefined},
                        {Undefined, ArrRef("reqFM")}, {Undefined, ArrRef("reqOC")},
                        intents, {Undefined}, {Undefined}, {Str("en")}),
           {Undefined})

\* the payloads handleRequest is run on
DispatchBodies == BodiesWith(Intents)

\* the payloads the mutation operations alone are run on
MutationBodies == BodiesWith({Obj([displayName |-> Str("Start")])})

\* the payloads the getters are read on: every field present or absent, the
\* present values falsy where the type has a falsy value
ReadBodies ==
    Bodies({Undefined, Str("r1")}, {Undefined, Str("")},
           {Undefined, Null} \cup
           QueryResults({Undefined, Str("")}, {Undefined, Obj([city |-> Str("x")])},
                        {Undefined, Bool(FALSE)}, {Null, Str("t")},
                        {Undefined, ArrRef("reqFM")}, {Undefined, ArrRef("reqOC")},
                        {Undefined, Obj([displayName |-> Str("Start")])},
                        {Undefined, Num(0)}, {Undefined, Obj([k |-> Num(1)])},
                        {Undefined, Str("en")}),
           {Undefined, Obj([source |-> Str("web")])})

\* the messages and contexts the platform echoes in the request
EchoedMessages == {<<>>, <<TextMessage(Str("e"))>>}
EchoedContexts == {<<>>, <<PlainContext("c0")>>}

----------------------------------------------------------------------------
(* The getters. *)

\* this.webhookRequestBody?.<field> ?? null
BodyField(body, field) == Coalesce(OptChain(body, field), Null)

\* the same with no optional chaining on queryResult
QueryResultFieldStrict(body, field) ==
    LET qr == OptChain(body, "queryResult")
    IN  IF Nullish(qr) THEN TypeError ELSE Coalesce(Prop(qr, field), Null)

\* this.webhookRequestBody?.queryResult?.<field> ?? null
QueryResultField(body, field) ==
    Coalesce(OptChain(OptChain(body, "queryResult"), field), Null)

responseId(body) == BodyField(body, "responseId")
session(body) == BodyField(body, "session")
query(body) == QueryResultField(body, "queryText")
parameters(body) == QueryResultField(body, "parameters")
allRequiredParamsPresent(body) == QueryResultField(body, "allRequiredParamsPresent")
fulfillmentText(body) == QueryResultField(body, "fulfillmentText")
fulfillmentMessages(body) == QueryResultField(body, "fulfillmentMessages")
outputContexts(body) == QueryResultField(body, "outputContexts")
intent(body) == QueryResultField(body, "intent")
intentDetectionConfidence(body) == QueryResultField(body, "intentDetectionConfidence")
diagnosticInfo(body) == QueryResultField(body, "diagnosticInfo")
languageCode(body) == QueryResultField(body, "languageCode")
originalDetectIntentRequest(body) == BodyField(body, "originalDetectIntentRequest")

GetterNames ==
    {"responseId", "session", "query", "parameters", "allRequiredParamsPresent",
     "fulfillmentText", "fulfillmentMessages", "outputContexts", "intent",
     "intentDetectionConfidence", "diagnosticInfo", "languageCode",
     "originalDetectIntentRequest"}

\* reading the getter called name
Getter(name, body) ==
    CASE name = "responseId" -> responseId(body)
      [] name = "session" -> session(body)
      [] name = "query" -> query(body)
      [] name = "parameters" -> parameters(body)
      [] name = "allRequiredParamsPresent" -> allRequiredParamsPresent(body)
      [] name = "fulfillmentText" -> fulfillmentText(body)
      [] name = "fulfillmentMessages" -> fulfillmentMessages(body)
      [] name = "outputContexts" -> outputContexts(body)
      [] name = "intent" -> intent(body)
      [] name = "intentDetectionConfidence" -> intentDetectionConfidence(body)
      [] name = "diagnosticInfo" -> diagnosticInfo(body)
      [] name = "languageCode" -> languageCode(body)
      [] name = "originalDetectIntentRequest" -> originalDetectIntentRequest(body)

\* what a caller sees in a value a getter returned: an array by its elements
Seen(v, h) == IF v.t = "arrayref" THEN Arr(h[v.ref]) ELSE v

----------------------------------------------------------------------------
(* Construction. *)

\* the constructor's two assignments to this.webhookResponseBody
constructor(body) ==
    [fulfillmentMessages |-> OptChain(Prop(body, "queryResult"), "fulfillmentMessages"),
     outputContexts |-> OptChain(Prop(body, "queryResult"), "outputContexts")]

Refs == {"reqFM", "reqOC", "newFM", "newOC"}

\* the state after new WebhookClient(request, response), request.body being body
\* with the echoed arrays fm and oc
Constructed(body, fm, oc) ==
    /\ webhookRequestBody = body
    /\ webhookResponseBody = constructor(body)
    /\ heap = [r \in Refs |-> CASE r = "reqFM" -> fm [] r = "reqOC" -> oc [] OTHER -> <<>>]
    /\ exception = "none"
    /\ pc = "idle"
    /\ calls = 0
    /\ intentMap = {}
    /\ delayed = FALSE
    /\ sent = <<>>
    /\ lateAdds = {}
    /\ history = "other"
    /\ constructed = [fulfillmentMessages |-> Seen(fulfillmentMessages(body), heap),
                      outputContexts |-> Seen(outputContexts(body), heap)]
    /\ result = [name |-> "none", value |-> Undefined]

\* an array the body does not hold has no contents to choose
EchoesOf(body, field, echoes) ==
    IF OptChain(OptChain(body, "queryResult"), field).t = "arrayref" THEN echoes ELSE {<<>>}

Init ==
    \E body \in DispatchBodies :
        \E fm \in EchoesOf(body, "fulfillmentMessages", EchoedMessages) :
            \E oc \in EchoesOf(body, "outputContexts", EchoedContexts) :
                Constructed(body, fm, oc)

InitMutations ==
    \E body \in MutationBodies :
        \E fm \in EchoesOf(body, "fulfillmentMessages", EchoedMessages) :
            \E oc \in EchoesOf(body, "outputContexts", EchoedContexts) :
                Constructed(body, fm, oc)

InitRead ==
    \E body \in ReadBodies :
        Constructed(body, <<TextMessage(Str("e"))>>, <<PlainContext("c0")>>)

\* a caller reads one getter
Read ==
    /\ \E name \in GetterNames :
           result' = [name |-> name, value |-> Getter(name, webhookRequestBody)]
    /\ UNCHANGED <<webhookRequestBody, webhookResponseBody, heap, exception, pc, calls,
                   intentMap, delayed, sent, lateAdds, history, constructed>>

NextRead == Read

SpecRead == InitRead /\ [][NextRead]_vars

----------------------------------------------------------------------------
(* The mutation operations.  Each is a function of the response body and   *)
(* the heap to the response body and the heap after the call, with what    *)
(* the call threw.                                                         *)

Outcome(body, h, e) == [body |-> body, heap |-> h, exception |-> e]

\* target?.push(...items)
PushOpt(h, target, items) ==
    IF Nullish(target) THEN h ELSE [h EXCEPT ![target.ref] = @ \o items]

\* obj?.length
LengthOf(obj) ==
    CASE obj.t = "array" -> Num(Len(obj.items))
      [] obj.t = "string" -> Num(Len(obj.s))
      [] obj.t = "arraylike" -> Num(obj.length)
      [] OTHER -> Undefined

\* obj?.length > 0, which is false of undefined > 0
isStringArray(obj) == LengthOf(obj).t = "number" /\ LengthOf(obj).n > 0

\* The builds of the class.  Compiled for ES2015 or later, for...of and spread
\* iterate, and throw on what is not iterable; compiled for ES5, they index their
\* operand from 0 to its length, which is 0 when it has none.
Builds == {"es2015", "es5"}

\* only arrays are passed that are iterable
Iterable(obj) == obj.t = "array"

\* the elements for...of and spread go through
Elements(obj, build) ==
    IF obj.t = "array" THEN obj.items
    ELSE IF LengthOf(obj).t = "number" THEN [i \in 1..LengthOf(obj).n |-> Undefined]
    ELSE <<>>

TextMessages(items) == [i \in DOMAIN items |-> TextMessage(items[i])]

add(response, body, h, build) ==
    IF response.t = "string"
    THEN Outcome(body, PushOpt(h, body.fulfillmentMessages, <<TextMessage(response)>>),
                 "none")
    ELSE IF isStringArray(response)
    THEN IF Iterable(response) \/ build = "es5"
         THEN Outcome(body,
                      PushOpt(h, body.fulfillmentMessages,
                              TextMessages(Elements(response, build))),
                      "none")
         ELSE Outcome(body, h, "TypeError: response is not iterable")
    ELSE Outcome(body, h, "none")

\* clearFulfillments resetting the other array
clearFulfillmentsOtherField(body, h) ==
    Outcome([body EXCEPT !.outputContexts = ArrRef("newOC")],
            [h EXCEPT !["newOC"] = <<>>], "none")

clearFulfillments(body, h) ==
    Outcome([body EXCEPT !.fulfillmentMessages = ArrRef("newFM")],
            [h EXCEPT !["newFM"] = <<>>], "none")

\* target.push(...items), which throws on a target that is undefined
Push(body, h, target, items) ==
    IF Nullish(target)
    THEN Outcome(body, h, "TypeError: cannot read 'push' of undefined")
    ELSE Outcome(body, [h EXCEPT ![target.ref] = @ \o items], "none")

addContext(context, body, h, build) ==
    IF context.t = "Context"
    THEN Push(body, h, body.outputContexts, <<context>>)
    ELSE IF Nullish(body.outputContexts) \/ Iterable(context) \/ build = "es5"
    THEN Push(body, h, body.outputContexts, Elements(context, build))
    ELSE Outcome(body, h, "TypeError: context is not iterable")

clearContexts(body, h) ==
    Outcome([body EXCEPT !.outputContexts = ArrRef("newOC")],
            [h EXCEPT !["newOC"] = <<>>], "none")

\* the arguments add is called with
AddStrings == {"x"}
AddArgs ==
    {Str(s) : s \in AddStrings}
    \cup {Arr(<<>>), Arr(<<Str("a"), Str("b")>>)}
    \cup {Undefined, Num(5), ArrayLike(0), ArrayLike(1)}

\* the arguments addContext is called with
AddContextArgs ==
    {Context("c1"), Arr(<<>>), Arr(<<Context("c1"), Context("c2")>>), PlainContext("c1")}

\* the outbound arrays as a caller of send would see them now
Outbound(field) == Seen(webhookResponseBody[field], heap)

\* the arrays stay within the bounds of the model
WithinBounds(o, maxMsgs, maxCtxs) ==
    /\ \A r \in {"reqFM", "newFM"} : Len(o.heap[r]) <= maxMsgs
    /\ \A r \in {"reqOC", "newOC"} : Len(o.heap[r]) <= maxCtxs

\* the arguments and bounds the mutation operations are called with: on their own,
\* and around a handleRequest invocation
MutationInputs ==
    [add |-> AddArgs, addContext |-> AddContextArgs, maxMsgs |-> MaxMsgs,
     maxCtxs |-> MaxCtxs]
DispatchInputs ==
    [add |-> {Str(s) : s \in AddStrings},
     addContext |-> {Context("c1")},
     maxMsgs |-> MaxDispatchMsgs, maxCtxs |-> MaxDispatchCtxs]

\* A method of the adapter is called and returns or throws o.  While the handler
\* runs the caller is the handler, and what the call throws ends the handler.
Call(o, h, in) ==
    /\ WithinBounds(o, in.maxMsgs, in.maxCtxs)
    /\ webhookResponseBody' = o.body
    /\ heap' = o.heap
    /\ exception' = o.exception
    /\ pc' = IF pc = "running" /\ o.exception # "none" THEN "rejected" ELSE pc
    /\ history' = h
    /\ UNCHANGED <<webhookRequestBody, calls, intentMap, delayed, sent, constructed, result>>

\* add(response) is called
Add(response, in) ==
    /\ \E build \in Builds :
           Call(add(response, webhookResponseBody, heap, build),
                IF history = "clearFulfillments" /\ response.t = "string"
                THEN "clearFulfillments;add" ELSE "other", in)
    /\ lateAdds' = IF pc = "running" /\ delayed /\ response.t = "string"
                   THEN lateAdds \cup {response.s} ELSE lateAdds

CallAdd(in) == \E response \in in.add : Add(response, in)

CallClearFulfillments(in) ==
    /\ Call(clearFulfillments(webhookResponseBody, heap), "clearFulfillments", in)
    /\ lateAdds' = {}

\* addContext(context) is called
AddContext(context, in) ==
    /\ \E build \in Builds :
           Call(addContext(context, webhookResponseBody, heap, build), "other", in)
    /\ UNCHANGED lateAdds

CallAddContext(in) == \E context \in in.addContext : AddContext(context, in)

CallClearContexts(in) ==
    /\ Call(clearContexts(webhookResponseBody, heap), "other", in)
    /\ UNCHANGED lateAdds

----------------------------------------------------------------------------
(* handleRequest. *)

\* the maps handleRequest is called with, by their own keys; each is an ordinary
\* object, as the object literals of the class's examples are
IntentMaps == {{"Start"}, {"Other"}}

\* the functions an ordinary object inherits from Object.prototype that return
\* when called with the adapter as their argument
InheritedFunctions ==
    {"constructor", "toString", "toLocaleString", "valueOf", "hasOwnProperty",
     "isPrototypeOf", "propertyIsEnumerable"}

\* the property key a value used as an index stands for
PropertyKey(v) ==
    CASE v.t = "string" -> v.s
      [] v.t = "undefined" -> "undefined"
      [] v.t = "null" -> "null"

\* this.webhookRequestBody?.queryResult?.intent?.displayName
displayName(body) ==
    OptChain(OptChain(OptChain(body, "queryResult"), "intent"), "displayName")

\* intentMap[key]: an own property, else one inherited, else undefined
Lookup(map, key) ==
    IF key \in map THEN "handler"
    ELSE IF key \in InheritedFunctions THEN "inherited"
    ELSE "undefined"

\* JSON of one element of an outbound array: a context by its fields, a text
\* message with null for a text that is undefined
JsonElement(x) ==
    IF "t" \in DOMAIN x THEN [name |-> x.name]
    ELSE TextMessage(IF x.text.text[1].t = "undefined" THEN Null ELSE x.text.text[1])

\* JSON.stringify of a field of the response body: undefined is left out
JsonField(v, h) ==
    IF v.t = "arrayref"
    THEN Arr([i \in DOMAIN h[v.ref] |-> JsonElement(h[v.ref][i])])
    ELSE IF v.t = "undefined" THEN [t |-> "omitted"]
    ELSE v

\* JSON.stringify of the response body
JsonStringify(body, h) ==
    [t |-> "json",
     fulfillmentMessages |-> JsonField(body.fulfillmentMessages, h),
     outputContexts |-> JsonField(body.outputContexts, h)]

\* send keeping the object it is given, to write it later, in place of writing
\* its JSON text at once
sendReference(deliveries, call, body, h) ==
    Append(deliveries, [call |-> call, payload |-> [t |-> "live"]])

\* send writing the body twice
sendTwice(deliveries, call, body, h) ==
    deliveries \o << [call |-> call, payload |-> JsonStringify(body, h)],
                     [call |-> call, payload |-> JsonStringify(body, h)] >>

\* this.response.send(this.webhookResponseBody): Express writes the JSON text of
\* the body when called
send(deliveries, call, body, h) ==
    Append(deliveries, [call |-> call, payload |-> JsonStringify(body, h)])

\* await: the continuation runs once the awaited value is fulfilled
Awaited(p) == p = "fulfilled"

\* handleRequest(intentMap) up to its await: the handler is looked up and called
HandleRequest ==
    \E map \in IntentMaps :
        /\ pc \in {"idle", "done", "rejected"}
        /\ calls < MaxCalls
        /\ calls' = calls + 1
        /\ intentMap' = map
        /\ pc' = CASE Lookup(map, PropertyKey(displayName(webhookRequestBody))) = "handler"
                        -> "running"
                   [] Lookup(map, PropertyKey(displayName(webhookRequestBody))) = "inherited"
                        -> "fulfilled"
                   [] OTHER -> "rejected"
        /\ delayed' = FALSE
        /\ lateAdds' = {}
        /\ history' = "other"
        /\ exception' = "none"
        /\ UNCHANGED <<webhookRequestBody, webhookResponseBody, heap, sent, constructed,
                       result>>

HandlerStep(from, to) ==
    /\ pc = from
    /\ pc' = to
    /\ UNCHANGED <<webhookRequestBody, webhookResponseBody, heap, exception, calls,
                   intentMap, sent, lateAdds, history, constructed, result>>

\* the handler awaits a delayed step of its own
HandlerAwait == HandlerStep("running", "suspended") /\ delayed' = TRUE

HandlerResume == HandlerStep("suspended", "running") /\ UNCHANGED delayed

\* the handler returns, or the promise it returned is fulfilled
HandlerReturn == HandlerStep("running", "fulfilled") /\ UNCHANGED delayed

\* the handler throws, or the promise it returned is rejected
HandlerThrow == HandlerStep("running", "rejected") /\ UNCHANGED delayed

\* what the handler awaits never settles
HandlerNeverSettles == HandlerStep("suspended", "pending") /\ UNCHANGED delayed

\* handleRequest after its await
Send ==
    /\ Awaited(pc)
    /\ sent' = send(sent, calls, webhookResponseBody, heap)
    /\ pc' = "done"
    /\ UNCHANGED <<webhookRequestBody, webhookResponseBody, heap, exception, calls,
                   intentMap, delayed, lateAdds, history, constructed, result>>

\* the mutation operations alone, on every argument
NextMutations ==
    \/ CallAdd(MutationInputs)
    \/ CallClearFulfillments(MutationInputs)
    \/ CallAddContext(MutationInputs)
    \/ CallClearContexts(MutationInputs)

SpecMutations == InitMutations /\ [][NextMutations]_vars

\* a handleRequest invocation, with the mutation operations called before it, by
\* its handler and after it
Next ==
    \/ CallAdd(DispatchInputs)
    \/ CallClearFulfillments(DispatchInputs)
    \/ CallAddContext(DispatchInputs)
    \/ CallClearContexts(DispatchInputs)
    \/ HandleRequest
    \/ HandlerAwait
    \/ HandlerResume
    \/ HandlerReturn
    \/ HandlerThrow
    \/ HandlerNeverSettles
    \/ Send

Spec == Init /\ [][Next]_vars

\* the continuation of an await on a fulfilled promise is a queued job, which runs
SpecFair == Spec /\ WF_vars(Send)

----------------------------------------------------------------------------
(* The claims. *)

OutFM == Outbound("fulfillmentMessages")
OutOC == Outbound("outputContexts")

\* the elements of an outbound array as seen, none when it is undefined
ItemsOf(seen) == IF seen.t = "array" THEN seen.items ELSE <<>>

Range(f) == {f[i] : i \in DOMAIN f}

\* the deliveries made by the handleRequest invocation c
DeliveriesOf(c) == {i \in DOMAIN sent : sent[i].call = c}

\* what the receiver of a delivery holds now
Observed(payload) ==
    IF payload.t = "live" THEN JsonStringify(webhookResponseBody, heap) ELSE payload
Delivered == [i \in DOMAIN sent |-> Observed(sent[i].payload)]

\* C1: send is called only by a handleRequest invocation whose handler is
\* fulfilled, at most once by each invocation, with the JSON of the outbound
\* payload as it is then; an invocation completes only by that one call; and once
\* the handler is fulfilled the call is made.
C1_DeliveredExactlyOnce ==
    /\ [][/\ sent' # sent =>
                /\ pc = "fulfilled" /\ pc' = "done"
                /\ DeliveriesOf(calls) = {}
                /\ sent' = Append(sent, [call |-> calls,
                                         payload |-> JsonStringify(webhookResponseBody,
                                                                   heap)])
          /\ (pc # "done" /\ pc' = "done") => Len(sent') = Len(sent) + 1]_vars
    /\ [](pc = "fulfilled" => <>(pc = "done"))

\* C1: an invocation whose handler awaited has completed with its one delivery
C1_Witness ==
    pc = "done" /\ delayed /\ Cardinality(DeliveriesOf(calls)) = 1

\* C2: send is called only once the handler is fulfilled; what the handler added
\* after a delay is in the payload delivered; and an invocation whose handler
\* never settles stays as it is, with nothing delivered.
C2_DeliveryReflectsHandler ==
    [][/\ sent' # sent =>
            /\ pc = "fulfilled"
            /\ \A x \in lateAdds :
                   TextMessage(Str(x)) \in
                       Range(ItemsOf(sent'[Len(sent')].payload.fulfillmentMessages))
       /\ pc = "pending" => (pc' = "pending" /\ sent' = sent)]_vars

\* C2, the order alone: send is called only once the handler is fulfilled, and
\* never by an invocation whose handler does not settle
DeliveryAfterSettle ==
    [][/\ sent' # sent => (pc = "fulfilled" /\ sent' = send(sent, calls,
                                                            webhookResponseBody, heap))
       /\ pc = "pending" => (pc' = "pending" /\ sent' = sent)]_vars

\* C3: an invocation whose display name is not a key of the handler map, or whose
\* handler threw or rejected, is rejected and has delivered nothing.
C3_UnmatchedOrFailingRejects ==
    /\ (calls >= 1 /\ PropertyKey(displayName(webhookRequestBody)) \notin intentMap)
           => (pc = "rejected" /\ DeliveriesOf(calls) = {})
    /\ pc = "rejected" => DeliveriesOf(calls) = {}

\* C4: add of a string, or of a non-empty array of strings, throws nothing and
\* leaves the outbound messages as they were with one text message per string
\* appended in order, on every adapter.
C4_AddAppends ==
    [][\A response \in AddArgs :
           (/\ response.t = "string" \/ (response.t = "array" /\ response.items # <<>>)
            /\ Add(response, MutationInputs))
           => /\ exception' = "none"
              /\ OutFM' = Arr(ItemsOf(OutFM) \o
                              (IF response.t = "string"
                               THEN <<TextMessage(response)>>
                               ELSE TextMessages(response.items)))]_vars

\* C5: addContext of a context, or of an array of contexts, throws nothing and
\* leaves the outbound contexts as they were with the contexts appended in order,
\* and the outbound messages unchanged, on every adapter.
C5_AddContextAppends ==
    [][\A context \in AddContextArgs :
           (/\ context.t \in {"Context", "array"}
            /\ AddContext(context, MutationInputs))
           => /\ exception' = "none"
              /\ OutOC' = Arr(ItemsOf(OutOC) \o
                              (IF context.t = "Context" THEN <<context>>
                               ELSE context.items))
              /\ OutFM' = OutFM]_vars

\* C6: clearFulfillments leaves the outbound messages empty and the outbound
\* contexts unchanged, and add of a string called next leaves exactly the one
\* text message of that string, the outbound contexts unchanged.
C6_ClearThenAdd ==
    [][/\ CallClearFulfillments(MutationInputs)
            => (OutFM' = Arr(<<>>) /\ OutOC' = OutOC /\ exception' = "none")
       /\ \A x \in AddStrings :
              (history = "clearFulfillments" /\ Add(Str(x), MutationInputs))
              => /\ OutFM' = Arr(<<TextMessage(Str(x))>>)
                 /\ OutOC' = OutOC
                 /\ exception' = "none"]_vars

\* C6: add of a string has followed clearFulfillments on an adapter that echoed a
\* message, and the contexts are there
C6_Witness ==
    /\ history = "clearFulfillments;add"
    /\ constructed.fulfillmentMessages = Arr(<<TextMessage(Str("e"))>>)
    /\ OutFM = Arr(<<TextMessage(Str("x"))>>)
    /\ ItemsOf(OutOC) # <<>>

\* C7: add of an empty array, or of what is neither a string nor an array, throws
\* nothing and leaves the outbound messages and contexts unchanged.
C7_AddIgnoresMalformed ==
    [][\A response \in AddArgs :
           (/\ response.t # "string"
            /\ response.t = "array" => response.items = <<>>
            /\ Add(response, MutationInputs))
           => (exception' = "none" /\ OutFM' = OutFM /\ OutOC' = OutOC)]_vars

\* the field of queryResult a getter reads, for the getters that read one
FieldRead(name) ==
    IF name = "query" THEN "queryText" ELSE name

\* the value stored where a getter reads, undefined when a level is absent
Stored(name) ==
    IF name \in {"responseId", "session", "originalDetectIntentRequest"}
    THEN webhookRequestBody.o[name]
    ELSE IF webhookRequestBody.o.queryResult.t = "object"
    THEN webhookRequestBody.o.queryResult.o[FieldRead(name)]
    ELSE Undefined

\* C8: a getter never fails: it returns the value stored where it reads, and null
\* when that value or a level above it is absent; so every getter that reads
\* through queryResult returns null on a payload with no queryResult.
C8_GettersTolerateAbsence ==
    result.name # "none" =>
        /\ result.value # TypeError
        /\ result.value = (IF Stored(result.name).t \in {"undefined", "null"}
                           THEN Null ELSE Stored(result.name))
        /\ (webhookRequestBody.o.queryResult = Undefined
            /\ result.name \notin {"responseId", "session", "originalDetectIntentRequest"})
               => result.value = Null

\* C8: a getter that reads through queryResult was read on a payload without one
C8_Witness ==
    /\ result.name = "query"
    /\ webhookRequestBody.o.queryResult = Undefined
    /\ result.value = Null

\* C9: whatever mutation operations were called, the getters fulfillmentMessages
\* and outputContexts return what they returned after construction.
C9_InboundUnchanged ==
    /\ Seen(fulfillmentMessages(webhookRequestBody), heap) = constructed.fulfillmentMessages
    /\ Seen(outputContexts(webhookRequestBody), heap) = constructed.outputContexts

\* C10: while a handleRequest invocation stays completed, no call changes what
\* was delivered nor delivers again.
C10_NoEffectAfterDispatch ==
    [][(pc = "done" /\ pc' = "done") => Delivered' = Delivered]_vars

\* C10: a mutation operation called after the delivery has changed the outbound
\* payload
C10_Witness ==
    /\ pc = "done"
    /\ Len(sent) = 1
    /\ JsonStringify(webhookResponseBody, heap) # sent[1].payload

====
